---- MODULE Spec2Model ----
(***************************************************************************)
(* The document tree and interaction-state engine of the resume editor.    *)
(*                                                                         *)
(* A node of the resume is an object of the heap (an index into `nodes`)   *)
(* carrying the flat record the components receive as props: `uuid`,       *)
(* `children`, `isHidden` and the data fields `value`, `title` and         *)
(* `subtitle`.  The components of                                          *)
(* ResumeNodeBase.tsx read their positional address from the props of the  *)
(* last render (`idTable`) and hand it to the callbacks of the top-level   *)
(* component.  The top-level component itself (the node store, the hover   *)
(* tracker and the selection) is modelled from its specification.          *)
(***************************************************************************)
EXTENDS Naturals, Sequences, FiniteSets, TLC

VARIABLES
    nodes,         \* heap of node records, indexed by object reference
    roots,         \* top-level children of the resume: sequence of references
    idTable,       \* props of the last render: set of [obj, id]
    hoverNode,     \* ResumeState.hoverNode : address or NoId
    selectedNode,  \* ResumeState.selectedNode : uuid or NoUuid
    isEditing,     \* the global edit flag
    mode,          \* ResumeState.mode
    toolbar,       \* the toolbar options resolved last, with what they captured
    cbCalls,       \* calls of the update callback in the last toolbar event
    result,        \* what the last store call reported to its caller
    lastOp         \* the last operation or event that was handled

vars == <<nodes, roots, idTable, hoverNode, selectedNode, isEditing, mode,
          toolbar, cbCalls, result, lastOp>>

----------------------------------------------------------------------------
(* Bounds of the model *)

\* Largest number of nodes the document may hold.
MaxNodes == 3

\* Largest number of title and subtitle fields the document may hold.
MaxFields == 2

----------------------------------------------------------------------------
(* Values *)

NoId   == <<>>          \* hoverNode?: IdType left undefined
NoUuid == "none"        \* selectedNode? left undefined
NoNode == 0             \* resolve(address) = none

UuidPool == <<"u1", "u2", "u3", "u4", "u5", "u6">>

\* An optional boolean prop: isHidden?: boolean
Undefined == "undefined"
OptBool   == {Undefined, "true", "false"}

DataValues == {"X", "Y"}
Keys       == {"value", "isHidden"}
ValuesOf(key) ==
    IF key = "isHidden" THEN {"true", "false"}
    ELSE IF key = "uuid" THEN {UuidPool[1]}
    ELSE DataValues

\* A title or subtitle list that was never set: node.title is undefined.
NoList == <<Undefined>>

\* No toolbar options have been resolved.
NoToolbar ==
    [type |-> "none", node |-> NoNode, id |-> NoId, size |-> 0,
     options |-> <<>>]

EditorModes == {"normal", "printing", "changingTemplate"}

\* JavaScript truthiness of an optional boolean, and the ! operator on it.
Truthy(b) == b = "true"
Not(b)    == IF Truthy(b) THEN "false" ELSE "true"

Range(s) == {s[i] : i \in 1..Len(s)}

----------------------------------------------------------------------------
(* Rendering: derivation of the positional addresses *)

\* A component's id from the props renderChildren hands it.
ComponentId(props) == props.parentId \o <<props.index>>

\* Mutant: the index is counted from 1.
renderChildren_oneBased(ns, o, id) ==
    [idx \in 1..Len(ns[o].children) |->
        [obj      |-> ns[o].children[idx],
         uuid     |-> ns[ns[o].children[idx]].uuid,
         index    |-> idx,
         parentId |-> id]]

\* Mutant: the sibling count is used in place of the sibling's index.
renderChildren_numChildren(ns, o, id) ==
    [idx \in 1..Len(ns[o].children) |->
        [obj      |-> ns[o].children[idx],
         uuid     |-> ns[ns[o].children[idx]].uuid,
         index    |-> Len(ns[o].children),
         parentId |-> id]]

\* Mutant: the siblings are numbered from the end of the list.
renderChildren_fromEnd(ns, o, id) ==
    [idx \in 1..Len(ns[o].children) |->
        [obj      |-> ns[o].children[idx],
         uuid     |-> ns[ns[o].children[idx]].uuid,
         index    |-> Len(ns[o].children) - idx,
         parentId |-> id]]

\* ResumeNodeBase.renderChildren: the props of each child of the node o,
\* which is rendered with address id.  Array indices start at 0.
renderChildren(ns, o, id) ==
    [idx \in 1..Len(ns[o].children) |->
        [obj      |-> ns[o].children[idx],
         uuid     |-> ns[ns[o].children[idx]].uuid,
         index    |-> idx - 1,
         parentId |-> id]]

\* The top-level component renders each root with its index in the root list.
renderRoots(ns, rs) ==
    [idx \in 1..Len(rs) |->
        [obj |-> rs[idx], uuid |-> ns[rs[idx]].uuid, index |-> idx - 1,
         parentId |-> <<>>]]

RECURSIVE RenderNode(_, _)
\* One component and, below it, the components renderChildren creates.
RenderNode(ns, props) ==
    LET id == ComponentId(props)
        kids == renderChildren(ns, props.obj, id)
    IN  {[obj |-> props.obj, id |-> id]}
            \cup UNION {RenderNode(ns, kids[i]) : i \in 1..Len(kids)}

\* A full render pass: every component with the address it received.
Render(ns, rs) ==
    LET top == renderRoots(ns, rs)
    IN  UNION {RenderNode(ns, top[i]) : i \in 1..Len(top)}

----------------------------------------------------------------------------
(* NodeStore *)

\* The child a sibling index names in a child list, if any.
resolveIndex(children, index) ==
    IF index + 1 \in 1..Len(children) THEN children[index + 1] ELSE NoNode

RECURSIVE Walk(_, _, _)
\* Follow the remaining indices of an address down from the node o.
Walk(ns, o, rest) ==
    IF rest = <<>> \/ o = NoNode THEN o
    ELSE Walk(ns, resolveIndex(ns[o].children, Head(rest)), Tail(rest))

\* resolve(address) -> Node | none
resolve(ns, rs, id) ==
    IF id = <<>> THEN NoNode
    ELSE Walk(ns, resolveIndex(rs, Head(id)), Tail(id))

\* Mutant: Array.prototype.unshift in place of push.
ChildHolderAddChild_unshift(children, child) == <<child>> \o children

\* ChildHolder.addChild: this.children.push(child)
ChildHolderAddChild(children, child) == Append(children, child)

\* A node as a structural add creates it: a fresh uuid, no children.
NewNode(ns, value) ==
    [uuid     |-> UuidPool[Len(ns) + 1],
     children |-> <<>>,
     isHidden |-> Undefined,
     title    |-> NoList,
     subtitle |-> NoList,
     value    |-> value]

\* new ChildHolder(children): isArray tells whether the argument is an
\* array; an argument that is no array is one child, or NoNode when the
\* argument was left out (undefined).  The constructor starts from an empty
\* array and, for an argument that is no array, tests this.children, the
\* empty array it has just made, which is truthy as every array is.
ChildHolder(isArray, children) ==
    LET fresh == <<>>
        freshIsTruthy == TRUE
    IN  IF isArray THEN children
        ELSE IF freshIsTruthy THEN <<children>>
        ELSE fresh

\* add(parentAddress, node) on the heap; the caller has resolved the parent.
StoreAdd(ns, parent, value) ==
    Append([ns EXCEPT ![parent].children =
                         ChildHolderAddChild(@, Len(ns) + 1)],
           NewNode(ns, value))

\* Mutant: writing the value a field already holds removes the field.
StoreUpdate_flip(ns, o, key, data) ==
    [ns EXCEPT ![o][key] = IF @ = data THEN Undefined ELSE data]

\* update(address, key, value) on the heap; the caller has resolved the node.
StoreUpdate(ns, o, key, data) == [ns EXCEPT ![o][key] = data]

----------------------------------------------------------------------------
(* The state the handlers work on.  Every callback and handler below is a
   function from such a state to the state it leaves behind. *)

St ==
    [nodes        |-> nodes,
     roots        |-> roots,
     idTable      |-> idTable,
     hoverNode    |-> hoverNode,
     selectedNode |-> selectedNode,
     isEditing    |-> isEditing,
     mode         |-> mode,
     toolbar      |-> toolbar,
     cbCalls      |-> cbCalls,
     result       |-> result]

\* The handler's outcome becomes the current state.
Becomes(st) ==
    /\ nodes' = st.nodes
    /\ roots' = st.roots
    /\ idTable' = st.idTable
    /\ hoverNode' = st.hoverNode
    /\ selectedNode' = st.selectedNode
    /\ isEditing' = st.isEditing
    /\ mode' = st.mode
    /\ toolbar' = st.toolbar
    /\ cbCalls' = st.cbCalls
    /\ result' = st.result

\* Root = [A(children = [B])], nothing hovered or selected.
InitTree ==
    /\ nodes = << [uuid |-> UuidPool[1], children |-> <<2>>,
                   isHidden |-> Undefined, title |-> NoList,
                   subtitle |-> NoList, value |-> "X"],
                  [uuid |-> UuidPool[2], children |-> <<>>,
                   isHidden |-> Undefined, title |-> NoList,
                   subtitle |-> NoList, value |-> "X"] >>
    /\ toolbar = NoToolbar
    /\ cbCalls = 0
    /\ roots = <<1>>
    /\ idTable = Render(nodes, roots)

Init ==
    /\ InitTree
    /\ hoverNode = NoId
    /\ selectedNode = NoUuid
    /\ isEditing = FALSE
    /\ mode = "normal"
    /\ result = "none"
    /\ lastOp = [op |-> "none", id |-> NoId]

----------------------------------------------------------------------------
(* MutationRouter: the mutation callbacks of the top-level component *)

\* Mutant: an address that does not resolve is reported as a success.
props_addChild_silent(st, id, value) ==
    LET parent == resolve(st.nodes, st.roots, id)
    IN  IF parent = NoNode
        THEN [st EXCEPT !.result = "ok"]
        ELSE LET ns == StoreAdd(st.nodes, parent, value)
             IN  [st EXCEPT !.nodes = ns,
                            !.idTable = Render(ns, st.roots),
                            !.result = "ok"]

\* Mutant: the add returns before the addresses are derived again.
props_addChild_noRender(st, id, value) ==
    LET parent == resolve(st.nodes, st.roots, id)
    IN  IF parent = NoNode
        THEN [st EXCEPT !.result = "InvalidAddress"]
        ELSE [st EXCEPT !.nodes = StoreAdd(st.nodes, parent, value),
                        !.result = "ok"]

\* props.addChild = add(parentAddress, node): append below the resolved
\* parent, then derive the addresses again before returning.
props_addChild(st, id, value) ==
    LET parent == resolve(st.nodes, st.roots, id)
    IN  IF parent = NoNode
        THEN [st EXCEPT !.result = "InvalidAddress"]
        ELSE LET ns == StoreAdd(st.nodes, parent, value)
             IN  [st EXCEPT !.nodes = ns,
                            !.idTable = Render(ns, st.roots),
                            !.result = "ok"]

\* props.updateData = update(address, key, value): set data[key] of the
\* resolved node, then derive the addresses again.
props_updateData(st, id, key, data) ==
    LET o == resolve(st.nodes, st.roots, id)
    IN  IF o = NoNode
        THEN [st EXCEPT !.result = "InvalidAddress"]
        ELSE LET ns == StoreUpdate(st.nodes, o, key, data)
             IN  [st EXCEPT !.nodes = ns,
                            !.idTable = Render(ns, st.roots),
                            !.result = "ok"]

\* Resume.addSection: a new section is pushed onto the root list.
addSection(st, value) ==
    LET rs == ChildHolderAddChild(st.roots, Len(st.nodes) + 1)
        ns == Append(st.nodes, NewNode(st.nodes, value))
    IN  [st EXCEPT !.roots = rs,
                   !.nodes = ns,
                   !.idTable = Render(ns, rs),
                   !.result = "ok"]

----------------------------------------------------------------------------
(* HoverSelectTracker: the hover and selection callbacks of the top-level
   component *)

\* "A is a strict prefix of B" on addresses.
IsStrictPrefix(a, b) == Len(a) < Len(b) /\ SubSeq(b, 1, Len(a)) = a

\* props.hoverOver(id): hover = id
props_hoverOver(st, id) == [st EXCEPT !.hoverNode = id]

\* props.hoverOut(id): clears the hover only if the hover equals id
props_hoverOut(st, id) ==
    [st EXCEPT !.hoverNode = IF @ = id THEN NoId ELSE @]

\* a is b or a prefix of b.
IsPrefix(a, b) == Len(a) <= Len(b) /\ SubSeq(b, 1, Len(a)) = a

\* props.isHovering(id): the pointer is over the node or inside it; the
\* container shows 'resume-hovering-over-children' for the second case.
props_isHovering(st, id) ==
    st.hoverNode # NoId /\ IsPrefix(id, st.hoverNode)

\* props.isSelectBlocked(id)
props_isSelectBlocked(st, id) ==
    st.hoverNode # NoId /\ IsStrictPrefix(id, st.hoverNode)

\* props.isSelected(uuid)
props_isSelected(st, uuid) ==
    st.selectedNode # NoUuid /\ st.selectedNode = uuid

\* props.updateSelected(id?): the selection becomes the uuid of the node at
\* that address; without an address it is cleared.
props_updateSelected(st, id) ==
    LET o == resolve(st.nodes, st.roots, id)
    IN  IF id = NoId THEN [st EXCEPT !.selectedNode = NoUuid]
        ELSE IF o = NoNode THEN st
        ELSE [st EXCEPT !.selectedNode = st.nodes[o].uuid]

\* props.toggleEdit(id): flips the single edit flag
props_toggleEdit(st, id) == [st EXCEPT !.isEditing = ~@]

----------------------------------------------------------------------------
(* ResumeNodeBase: the getters and callbacks of a rendered node r = [obj, id] *)

\* props.uuid and props.isHidden of the component rendering r.
PropsUuid(st, r)     == st.nodes[r.obj].uuid
PropsIsHidden(st, r) == st.nodes[r.obj].isHidden

\* ResumeNodeBase.isPrinting
isPrinting(st) == st.mode = "printing"

\* Mutant: the template changing screen is taken for an interactive mode.
isEditable_printingOnly(st) == ~isPrinting(st)

\* ResumeNodeBase.isEditable
isEditable(st) == ~isPrinting(st) /\ ~(st.mode = "changingTemplate")

\* ResumeNodeBase.isSelected
isSelected(st, r) == props_isSelected(st, PropsUuid(st, r))

\* Mutant: the parent's address is asked about in place of the node's own.
isSelectBlocked_parentId(st, r) ==
    props_isSelectBlocked(st, SubSeq(r.id, 1, Len(r.id) - 1))

\* ResumeNodeBase.isSelectBlocked
isSelectBlocked(st, r) == props_isSelectBlocked(st, r.id)

\* Mutant: the select-block test is left out.
setSelected_unblocked(st, r) ==
    IF ~isSelected(st, r) THEN props_updateSelected(st, r.id) ELSE st

\* Mutant: a node is selected only while the pointer is over it.
setSelected_hoverOnly(st, r) ==
    IF ~isSelected(st, r) /\ props_isHovering(st, r.id)
                         /\ ~isSelectBlocked(st, r)
    THEN props_updateSelected(st, r.id)
    ELSE st

\* ResumeNodeBase.setSelected
setSelected(st, r) ==
    IF ~isSelected(st, r) /\ ~isSelectBlocked(st, r)
    THEN props_updateSelected(st, r.id)
    ELSE st

\* props.isEditing: the edit flag, threaded as a prop through the nodes.
PropsIsEditing(st, r) == st.isEditing

\* ResumeNodeBase.isHovering
isHovering(st, r) == props_isHovering(st, r.id) /\ ~isPrinting(st)

\* ResumeNodeBase.isEditing (the getter)
isEditingNode(st, r) == PropsIsEditing(st, r) /\ isSelected(st, r)

\* ResumeNodeBase.className: the classes of the main container.
className(st, r) ==
    (IF ~isPrinting(st) /\ isHovering(st, r)
     THEN {"resume-hovering",
           IF isSelectBlocked(st, r) THEN "resume-hovering-over-children"
           ELSE "resume-hovering-over-self"}
     ELSE {})
    \cup (IF ~isPrinting(st) /\ isSelected(st, r)
         THEN {"resume-selected"}
              \cup (IF PropsIsEditing(st, r) THEN {"resume-editing"} ELSE {})
         ELSE {})
    \cup (IF Truthy(PropsIsHidden(st, r)) THEN {"resume-hidden"} ELSE {})

\* ResumeNodeBase.textFieldProps.isEditing: a text field shows its input.
textFieldProps_isEditing(st, r) == PropsIsEditing(st, r) /\ isSelected(st, r)

\* Header.render: the header shows its input.
HeaderRendersInput(st, r) == PropsIsEditing(st, r)

\* The component types: Header, and the nodes whose text is a text field.
NodeTypes == {"Header", "TextField"}

\* The node r, rendered by a component of that type, shows its editable form.
RendersEditableForm(st, r, type) ==
    IF type = "Header" THEN HeaderRendersInput(st, r)
    ELSE textFieldProps_isEditing(st, r)

\* ResumeNodeBase.selectTriggerProps: the handlers the container receives.
selectTriggerProps(st) ==
    IF ~isEditable(st) THEN {} ELSE {"onClick", "onMouseEnter", "onMouseLeave"}

\* Entering a node also selects it.
onMouseEnter_selects(st, r) ==
    props_updateSelected(props_hoverOver(st, r.id), r.id)

\* selectTriggerProps.onMouseEnter
onMouseEnter(st, r) == props_hoverOver(st, r.id)

\* Mutant: the leave handler reports the parent's address.
onMouseLeave_parentId(st, r) ==
    props_hoverOut(st, SubSeq(r.id, 1, Len(r.id) - 1))

\* selectTriggerProps.onMouseLeave
onMouseLeave(st, r) == props_hoverOut(st, r.id)

\* ResumeNodeBase.toggleEdit
toggleEdit(st, r) == props_toggleEdit(st, r.id)

\* Mutant: the field toggles the edit flag whether selected or not.
textFieldOnClick_always(st, r) == toggleEdit(st, r)

\* textFieldProps.onClick: this.isSelected ? this.toggleEdit : undefined
textFieldOnClick(st, r) == IF isSelected(st, r) THEN toggleEdit(st, r) ELSE st

\* ResumeNodeBase.addChild: the callback is optional and skipped when the
\* parent passed none.
addChild(st, r, value, provided) ==
    IF provided THEN props_addChild(st, r.id, value) ELSE st

\* Mutant: the parent's address is sent in place of the node's own.
updateData_parentId(st, r, key, data) ==
    props_updateData(st, SubSeq(r.id, 1, Len(r.id) - 1), key, data)

\* ResumeNodeBase.updateData
updateData(st, r, key, data) == props_updateData(st, r.id, key, data)

\* Mutant: the flag is only ever set, never cleared.
toggleHidden_set(st, r) == props_updateData(st, r.id, "isHidden", "true")

\* ResumeNodeBase.toggleHidden
toggleHidden(st, r) ==
    props_updateData(st, r.id, "isHidden", Not(PropsIsHidden(st, r)))

\* Header.render: the onChange of the input, which is rendered while
\* props.isEditing holds, writes the "value" field.
HeaderOnChange(st, r, text) == updateData(st, r, "value", text)

----------------------------------------------------------------------------
(* ToolbarOptions: the option tree of a node and its actions *)

\* Entry.name, the one type discriminator of the switch with a case.
EntryName == "Entry"

ToolbarTypes == {EntryName, "unknown-type"}

\* The new entry put in front of the list.
addTitleField_unshift(node) ==
    IF node.title = NoList THEN <<"">> ELSE <<"">> \o node.title

\* addTitleField: node.title || [], then push(''), returned.
addTitleField(node) ==
    IF node.title = NoList THEN <<"">> ELSE Append(node.title, "")

\* addSubtitleField: node.subtitle || [], then push(''), returned.
addSubtitleField(node) ==
    IF node.subtitle = NoList THEN <<"">> ELSE Append(node.subtitle, "")

\* arr.push('') works on the list the node holds: where the node has the
\* list, the list of the tree itself is lengthened, before any callback.
pushInPlace(st, o, key) ==
    IF st.nodes[o][key] = NoList THEN st
    ELSE [st EXCEPT !.nodes[o][key] = Append(@, "")]

\* A switch whose default shares the options of Entry.
ToolbarOptions_fallthrough(type) ==
    << [text    |-> "Title Options",
        actions |-> << [text |-> "Add another title field", key |-> "title"],
                       [text |-> "Add another subtitle field",
                        key  |-> "subtitle"] >>] >>

\* ToolbarOptions: the option tree by type.  A leaf is its text and the key
\* its action writes; the node and the callback the action closes over are
\* kept with the resolved options.
ToolbarOptions(type) ==
    IF type = EntryName
    THEN << [text    |-> "Title Options",
             actions |-> << [text |-> "Add another title field",
                             key  |-> "title"],
                            [text |-> "Add another subtitle field",
                             key  |-> "subtitle"] >>] >>
    ELSE <<>>

\* The leaf actions of an option tree.
Leaves(options) == UNION {Range(options[i].actions) : i \in 1..Len(options)}

\* A callback bound to the address of the parent of the node.
updateNode_parentId(st, key, data) ==
    [props_updateData(st, SubSeq(st.toolbar.id, 1, Len(st.toolbar.id) - 1),
                      key, data)
        EXCEPT !.cbCalls = @ + 1]

\* updateNode: the update callback handed to ToolbarOptions, bound to the
\* address the node had when the options were resolved.  Each call is
\* counted.
updateNode(st, key, data) ==
    [props_updateData(st, st.toolbar.id, key, data) EXCEPT !.cbCalls = @ + 1]

\* Resolving the options of the node rendered as r: ToolbarOptions is
\* called with the node and the callback, and the result is kept.
ResolveToolbar(st, r, type) ==
    [st EXCEPT !.toolbar = [type    |-> type,
                            node    |-> r.obj,
                            id      |-> r.id,
                            size    |-> Len(st.nodes),
                            options |-> ToolbarOptions(type)],
               !.cbCalls = 0]

\* An action that writes the title and the subtitle.
InvokeAction_both(st, leaf) ==
    LET o    == st.toolbar.node
        node == st.nodes[o]
    IN  updateNode(updateNode([pushInPlace(st, o, "title")
                                  EXCEPT !.cbCalls = 0],
                              "title", addTitleField(node)),
                   "subtitle", addSubtitleField(node))

\* The action of a leaf of the resolved options:
\* () => updateNode(key, addTitleField(node)), on the captured node.
InvokeAction(st, leaf) ==
    LET o    == st.toolbar.node
        node == st.nodes[o]
        arr  == IF leaf.key = "title" THEN addTitleField(node)
                ELSE addSubtitleField(node)
    IN  updateNode([pushInPlace(st, o, leaf.key) EXCEPT !.cbCalls = 0],
                   leaf.key, arr)

\* The same action where the update callback drops the call, or the update
\* it makes fails: addTitleField / addSubtitleField have run, the router
\* has written nothing.
InvokeActionDropped(st, leaf) ==
    [pushInPlace(st, st.toolbar.node, leaf.key) EXCEPT !.cbCalls = 1]

----------------------------------------------------------------------------
(* The engine surface and the events, as handlers *)

\* The component rendered at an address.
At(st, id) == CHOOSE r \in st.idTable : r.id = id

\* toggleHidden(address): the toggleHidden callback of the node rendered at
\* that address.
ToggleHiddenAt(st, id) ==
    IF resolve(st.nodes, st.roots, id) = NoNode
    THEN [st EXCEPT !.result = "InvalidAddress"]
    ELSE toggleHidden(st, At(st, id))

\* The pointer enters the container of r.
MouseEnter(st, r) ==
    IF "onMouseEnter" \in selectTriggerProps(st) THEN onMouseEnter(st, r)
    ELSE st

\* The pointer leaves the container of r; the event may arrive late.
MouseLeave(st, r) ==
    IF "onMouseLeave" \in selectTriggerProps(st) THEN onMouseLeave(st, r)
    ELSE st

\* A click on the container of r.
Click(st, r) ==
    IF "onClick" \in selectTriggerProps(st) THEN setSelected(st, r) ELSE st

\* A click on the empty canvas: updateSelected() without an address.
CanvasClick(st) == props_updateSelected(st, NoId)

\* A click on a text field of r: the onClick of the field, then, the event
\* bubbling, the onClick of the container.
TextFieldClick(st, r) == Click(textFieldOnClick(st, r), r)

\* Enter is pressed in a text field of r.
EnterDown(st, r) == toggleEdit(st, r)

\* The editor changes its mode.
SetMode(st, m) == [st EXCEPT !.mode = m]

----------------------------------------------------------------------------
(* Actions: one per call of the engine surface or event *)

\* For every rendered node (and the root list) the address one past its
\* last child, which resolves to nothing.
StaleAddrs ==
    {r.id \o <<Len(nodes[r.obj].children)>> : r \in idTable}
        \cup {<<Len(roots)>>}

\* Addresses a caller may hold: those of the last render, the address past
\* the last section and the address past the last child of the first section.
CallerAddrs ==
    {r.id : r \in idTable}
        \cup {<<Len(roots)>>, <<0, Len(nodes[roots[1]].children)>>}

Did(op, id) == lastOp' = [op |-> op, id |-> id]

\* What is recorded of a store call at an address: the operation, or that
\* the call was refused.
Handled(op, id) ==
    IF resolve(nodes, roots, id) = NoNode THEN "refused" ELSE op

HasRoom == Len(nodes) < MaxNodes

DoAdd(id, value) ==
    /\ resolve(nodes, roots, id) # NoNode => HasRoom
    /\ Becomes(props_addChild(St, id, value))
    /\ Did(Handled("add", id), NoId)

DoUpdate(id, key, data) ==
    /\ Becomes(props_updateData(St, id, key, data))
    /\ Did(Handled("update", id), NoId)

DoToggleHidden(id) ==
    /\ Becomes(ToggleHiddenAt(St, id))
    /\ Did(Handled("toggleHidden", id), NoId)

\* Without the callback nothing is handled, and nothing recorded.
DoNodeAddChild(r, value, provided) ==
    /\ provided => HasRoom
    /\ Becomes(addChild(St, r, value, provided))
    /\ IF provided THEN Did("add", NoId) ELSE UNCHANGED lastOp

DoHeaderOnChange(r, text) ==
    /\ isEditing
    /\ Becomes(HeaderOnChange(St, r, text))
    /\ Did("update", NoId)

DoAddSection(value) ==
    /\ HasRoom
    /\ Becomes(addSection(St, value))
    /\ Did("addSection", NoId)

DoMouseEnter(r) == Becomes(MouseEnter(St, r)) /\ Did("hoverOver", r.id)

DoMouseLeave(r) == Becomes(MouseLeave(St, r)) /\ Did("hoverOut", r.id)

DoClick(r) == Becomes(Click(St, r)) /\ Did("click", r.id)

DoCanvasClick == Becomes(CanvasClick(St)) /\ Did("updateSelected", NoId)

DoTextFieldClick(r) ==
    Becomes(TextFieldClick(St, r)) /\ Did("textFieldClick", r.id)

DoEnterDown(r) == Becomes(EnterDown(St, r)) /\ Did("toggleEdit", NoId)

DoSetMode(m) == Becomes(SetMode(St, m)) /\ Did("setMode", NoId)

\* The number of entries of a title or subtitle list.
ListLen(list) == IF list = NoList THEN 0 ELSE Len(list)

RECURSIVE FieldCount(_, _)
FieldCount(ns, n) ==
    IF n = 0 THEN 0
    ELSE ListLen(ns[n].title) + ListLen(ns[n].subtitle) + FieldCount(ns, n - 1)

HasFieldRoom == FieldCount(nodes, Len(nodes)) < MaxFields

DoResolveToolbar(r, type) ==
    Becomes(ResolveToolbar(St, r, type)) /\ Did("resolveToolbar", r.id)

\* A node without a title list is given one through updateData.
DoSetTitle(r, list) ==
    /\ HasFieldRoom
    /\ nodes[r.obj].title = NoList
    /\ Becomes(updateData(St, r, "title", list))
    /\ Did("update", NoId)

DoInvokeAction(leaf) ==
    /\ HasFieldRoom
    /\ Becomes(InvokeAction(St, leaf))
    /\ Did("action", toolbar.id)

----------------------------------------------------------------------------
(* The node store under every sequence of mutations *)

NextStore ==
    \/ \E id \in CallerAddrs : DoAdd(id, "X")
    \/ \E id \in CallerAddrs, k \in Keys : \E v \in ValuesOf(k) :
          DoUpdate(id, k, v)
    \/ \E id \in CallerAddrs : DoToggleHidden(id)
    \/ \E r \in idTable, p \in BOOLEAN : DoNodeAddChild(r, "X", p)
    \/ \E r \in idTable, v \in DataValues : DoHeaderOnChange(r, v)
    \/ DoAddSection("X")

\* The initial tree with B = [0,0] hovered, A selected and the edit flag
\* set, as the tracker can leave them.
InitStore ==
    /\ InitTree
    /\ hoverNode = <<0, 0>>
    /\ selectedNode = UuidPool[1]
    /\ isEditing = TRUE
    /\ mode = "normal"
    /\ result = "none"
    /\ lastOp = [op |-> "none", id |-> NoId]

SpecStore == InitStore /\ [][NextStore]_vars

----------------------------------------------------------------------------
(* The tracker under every sequence of pointer events, on a growing tree *)

NextTracker ==
    \/ \E r \in idTable : DoMouseEnter(r)
    \/ \E r \in idTable : DoMouseLeave(r)
    \/ \E r \in idTable : DoClick(r)
    \/ DoCanvasClick
    \/ \E r \in idTable : DoTextFieldClick(r)
    \/ \E r \in idTable : DoEnterDown(r)
    \/ \E m \in EditorModes : DoSetMode(m)
    \/ \E r \in idTable : DoNodeAddChild(r, "X", TRUE)

SpecTracker == Init /\ [][NextTracker]_vars

----------------------------------------------------------------------------
(* Identity and selection under updates with any key *)

\* UpdateChild takes key: string.  The record of a node is flat: the props
\* spread from it carry uuid next to the data fields, and toggleHidden
\* writes the node field isHidden through the same updateData.  A key may
\* therefore name a node field.
AnyKeys == Keys \cup {"uuid"}

NextIdentity ==
    \/ \E id \in CallerAddrs, k \in AnyKeys : \E v \in ValuesOf(k) :
          DoUpdate(id, k, v)
    \/ \E id \in CallerAddrs : DoToggleHidden(id)
    \/ \E r \in idTable : DoNodeAddChild(r, "X", TRUE)
    \/ \E r \in idTable : DoClick(r)
    \/ DoCanvasClick

SpecIdentity == Init /\ [][NextIdentity]_vars

----------------------------------------------------------------------------
(* The toolbar: options resolved once, actions invoked between mutations *)

NextToolbar ==
    \/ \E r \in idTable, type \in ToolbarTypes : DoResolveToolbar(r, type)
    \/ \E leaf \in Leaves(toolbar.options) : DoInvokeAction(leaf)
    \/ \E r \in idTable : DoNodeAddChild(r, "X", TRUE)
    \/ \E r \in idTable : DoSetTitle(r, <<"T">>)

SpecToolbar == Init /\ [][NextToolbar]_vars

----------------------------------------------------------------------------
\* Every operation of the engine.
Next == NextStore \/ NextTracker \/ NextIdentity \/ NextToolbar

Spec == Init /\ [][Next]_vars

----------------------------------------------------------------------------
(* Notions the properties are stated with *)

RECURSIVE Descendants(_, _)
\* The nodes strictly below o in the tree.
Descendants(ns, o) ==
    UNION {{c} \cup Descendants(ns, c) : c \in Range(ns[o].children)}

\* a ++ s = b for some non-empty s.
ProperlyExtends(b, a) == \E k \in 1..Len(b) : a = SubSeq(b, 1, Len(b) - k)

Rendered(id) == \E r \in idTable : r.id = id

NodeFields == {"uuid", "children", "isHidden", "title", "subtitle", "value"}

\* Addresses to probe: every child position, present or not, below every
\* rendered node and in the root list.
ProbeAddrs ==
    {r.id \o <<k>> : r \in idTable, k \in 0..MaxNodes}
        \cup {<<k>> : k \in 0..MaxNodes}

\* Two states hold the same hover, selection, edit flag and mode.
SameTracker(s, t) ==
    /\ s.hoverNode = t.hoverNode
    /\ s.selectedNode = t.selectedNode
    /\ s.isEditing = t.isEditing
    /\ s.mode = t.mode

\* Two states hold the same tree with the same addresses.
SameTree(s, t) ==
    /\ s.nodes = t.nodes
    /\ s.roots = t.roots
    /\ s.idTable = t.idTable

\* From s to t no node but o changed, and no node was added.
OnlyNodeChanged(s, t, o) ==
    /\ Len(t.nodes) = Len(s.nodes)
    /\ \A j \in 1..Len(s.nodes) : j # o => t.nodes[j] = s.nodes[j]
    /\ t.roots = s.roots

----------------------------------------------------------------------------
(* Properties of the hover and selection tracker *)

\* C1: isSelectBlocked(a) holds exactly when a hover address is set and a is
\* a strict prefix of it; for a rendered node this is exactly when the
\* hovered node lies strictly below it in the tree, so never when the hover
\* is on the node itself, on an ancestor, on an unrelated node or unset.
C1_SelectBlockedIffHoverStrictlyBelow ==
    /\ \A a \in CallerAddrs :
          props_isSelectBlocked(St, a)
              <=> (hoverNode # NoId /\ ProperlyExtends(hoverNode, a))
    /\ \A r \in idTable :
          isSelectBlocked(St, r)
              <=> \E h \in idTable :
                     /\ h.id = hoverNode
                     /\ h.obj \in Descendants(nodes, r.obj)
    /\ hoverNode = <<0, 0>> =>
          /\ isSelectBlocked(St, At(St, <<0>>))
          /\ ~isSelectBlocked(St, At(St, <<0, 0>>))

\* C1 witness: the pointer has entered B = [0,0] and A = [0] is
\* select-blocked.
C1_Witness ==
    /\ hoverNode = <<0, 0>>
    /\ lastOp = [op |-> "hoverOver", id |-> <<0, 0>>]
    /\ isSelectBlocked(St, At(St, <<0>>))

\* C2: in interactive mode a click on a node selects it exactly when it is
\* neither selected already nor select-blocked, and the selection is then
\* the node's uuid; every other click leaves the whole state as it was.  So
\* with the pointer over B = [0,0] a click on A = [0] changes nothing and a
\* click on B selects B.
C2_ClickSelectsUnlessSelectedOrBlocked ==
    mode = "normal" =>
        \A r \in idTable :
            LET after == Click(St, r)
                free  == /\ selectedNode # nodes[r.obj].uuid
                         /\ ~(hoverNode # NoId
                                /\ ProperlyExtends(hoverNode, r.id))
            IN  /\ free => /\ after.selectedNode = nodes[r.obj].uuid
                           /\ after.selectedNode # selectedNode
                           /\ after = [St EXCEPT !.selectedNode =
                                                     nodes[r.obj].uuid]
                /\ ~free => after = St
                /\ (r.id = <<0>> /\ hoverNode = <<0, 0>>) => after = St
                /\ (r.id = <<0, 0>> /\ hoverNode = <<0, 0>>) =>
                      after.selectedNode = nodes[2].uuid

\* C2 witness: with the pointer over B, the click on B = [0,0] has selected B.
C2_Witness ==
    /\ hoverNode = <<0, 0>>
    /\ lastOp = [op |-> "click", id |-> <<0, 0>>]
    /\ selectedNode = nodes[2].uuid
    /\ mode = "normal"

\* C3: hoverOver(b) sets the hover to b; hoverOut(a) clears the hover only
\* when the hover equals a, so a late hoverOut(a) after hoverOver(b) leaves
\* the hover on b and everything else alone; no other event clears a hover.
C3_StaleHoverOutIsIgnored ==
    mode = "normal" =>
        /\ \A r \in idTable :
              /\ MouseEnter(St, r) = [St EXCEPT !.hoverNode = r.id]
              /\ hoverNode = r.id =>
                    MouseLeave(St, r) = [St EXCEPT !.hoverNode = NoId]
              /\ hoverNode # r.id => MouseLeave(St, r) = St
              /\ \A b \in idTable :
                    b.id # r.id =>
                       LET late == MouseLeave(MouseEnter(MouseEnter(St, r), b), r)
                       IN  /\ late.hoverNode = b.id
                           /\ late = MouseEnter(St, b)
                           /\ MouseLeave(late, b).hoverNode = NoId
              /\ Click(St, r).hoverNode = hoverNode
              /\ EnterDown(St, r).hoverNode = hoverNode
        /\ CanvasClick(St).hoverNode = hoverNode
        /\ \A m \in EditorModes : SetMode(St, m).hoverNode = hoverNode

\* C3 witness: a hoverOut(a) was handled while the hover was on another
\* address b, and the hover is still b.
C3_Witness ==
    /\ lastOp.op = "hoverOut"
    /\ hoverNode # NoId
    /\ hoverNode # lastOp.id
    /\ mode = "normal"

----------------------------------------------------------------------------
(* Properties of the node store and of the addresses *)

\* C4: in every snapshot the derived addresses are pairwise distinct: no two
\* nodes share an address, every node of the tree has one address, and every
\* address belongs to one node.
C4_AddressesPairwiseDistinct ==
    /\ \A r1 \in idTable, r2 \in idTable : r1.id = r2.id => r1.obj = r2.obj
    /\ \A r1 \in idTable, r2 \in idTable : r1.obj = r2.obj => r1.id = r2.id
    /\ {r.obj : r \in idTable} = 1..Len(nodes)
    /\ Cardinality({r.id : r \in idTable}) = Len(nodes)

\* C4 witness: a snapshot after an add in which a node has two children.
C4_Witness ==
    /\ \E o \in 1..Len(nodes) : Len(nodes[o].children) = 2
    /\ lastOp.op = "add"

\* C5: the i-th root has address [i], the i-th child of the node at p has
\* address p ++ [i], resolve(address(n)) = n for every node n, and an address
\* no node has resolves to none.
C5_AddressesMatchTreeShape ==
    /\ \A i \in 1..Len(roots) :
          [obj |-> roots[i], id |-> <<i - 1>>] \in idTable
    /\ \A r \in idTable : \A i \in 1..Len(nodes[r.obj].children) :
          [obj |-> nodes[r.obj].children[i], id |-> r.id \o <<i - 1>>]
              \in idTable
    /\ \A r \in idTable : resolve(nodes, roots, r.id) = r.obj
    /\ \A a \in ProbeAddrs :
          ~Rendered(a) => resolve(nodes, roots, a) = NoNode

\* C5 witness: a tree with a second root, where [1] and [0,0] resolve and
\* [0,1] does not.
C5_Witness ==
    /\ Len(roots) = 2
    /\ resolve(nodes, roots, <<1>>) = 3
    /\ resolve(nodes, roots, <<0, 0>>) = 2
    /\ resolve(nodes, roots, <<0, 1>>) = NoNode

\* C6: update(address, key, value) on an address that resolves sets that key
\* of the resolved node and nothing else: the node's other fields, the other
\* nodes, every child list, the addresses, hover, selection, edit flag and
\* mode are as before.  Stated of the update every rendered node issues at
\* its own address, which are the addresses that resolve.
C6_UpdateSetsOnlyThatKey ==
    \A r \in idTable, k \in Keys : \A v \in ValuesOf(k) :
        \A o \in {resolve(nodes, roots, r.id)},
           after \in {updateData(St, r, k, v)} :
            /\ o = r.obj
            /\ after.nodes[o][k] = v
            /\ \A f \in NodeFields \ {k} : after.nodes[o][f] = nodes[o][f]
            /\ OnlyNodeChanged(St, after, o)
            /\ after.idTable = idTable
            /\ SameTracker(St, after)
            /\ after.result = "ok"

\* C6 witness: an update wrote the value of B = [0,0] and A keeps its own.
C6_Witness ==
    /\ lastOp.op = "update"
    /\ result = "ok"
    /\ nodes[2].value = "Y"
    /\ nodes[1].value = "X"

\* C7: add, update and toggleHidden on an address that does not resolve
\* report InvalidAddress and leave the tree, the id table, hover, selection,
\* edit flag and mode as they were.
C7_InvalidAddressChangesNothing ==
    \A id \in StaleAddrs :
        LET refused == [St EXCEPT !.result = "InvalidAddress"]
        IN  /\ resolve(nodes, roots, id) = NoNode
            /\ \A v \in DataValues : props_addChild(St, id, v) = refused
            /\ \A k \in Keys : \A v \in ValuesOf(k) :
                  props_updateData(St, id, k, v) = refused
            /\ ToggleHiddenAt(St, id) = refused

\* C7 witness: a mutation was refused on a tree that mutations had changed.
C7_Witness ==
    /\ result = "InvalidAddress"
    /\ lastOp.op = "refused"
    /\ Len(nodes) > 2

\* C8: update is idempotent: for every address that resolves, applying
\* update(address, key, value) twice in a row yields the tree that applying
\* it once yields.  Stated of the update every rendered node issues at its
\* own address.
C8_UpdateIdempotent ==
    \A r \in idTable, k \in Keys : \A v \in ValuesOf(k) :
        \A once \in {updateData(St, r, k, v)} :
            /\ once.result = "ok"
            /\ updateData(once, r, k, v) = once

\* C8 witness: an update has been applied and fields differ from the initial
\* ones.
C8_Witness ==
    /\ lastOp.op = "update"
    /\ result = "ok"
    /\ \E o \in 1..Len(nodes) :
          nodes[o].value = "Y" /\ nodes[o].isHidden = "true"

\* C9 as claimed: toggling hidden twice on a node restores the tree exactly
\* as it was, whatever the flag was, also when it was never set.
C9_Claimed_ToggleTwiceRestoresTree ==
    \A r \in idTable :
        SameTree(toggleHidden(toggleHidden(St, r), r), St)

\* C9 as amended: toggling hidden twice restores whether the node is hidden
\* and changes nothing else of the tree; the stored flag is restored exactly
\* when it was set before (true or false), while a flag that was never set
\* is left set to false.
C9_ToggleTwiceRestoresHiddenState ==
    \A r \in idTable :
        \A once \in {toggleHidden(St, r)} :
        \A twice \in {toggleHidden(once, r)} :
        LET o == r.obj
        IN  /\ Truthy(once.nodes[o].isHidden) # Truthy(nodes[o].isHidden)
            /\ Truthy(twice.nodes[o].isHidden) = Truthy(nodes[o].isHidden)
            /\ nodes[o].isHidden # Undefined => SameTree(twice, St)
            /\ nodes[o].isHidden = Undefined =>
                  twice.nodes = [nodes EXCEPT ![o].isHidden = "false"]
            /\ twice.roots = roots
            /\ twice.idTable = idTable
            /\ SameTracker(twice, St)

\* C9 witness: a toggle has been handled and a node's flag is set to false.
C9_Witness ==
    /\ lastOp.op = "toggleHidden"
    /\ result = "ok"
    /\ \E o \in 1..Len(nodes) : nodes[o].isHidden = "false"

\* C10: add(parentAddress, node) on an address that resolves makes the node
\* the last child of that parent: the parent has one child more, its previous
\* children keep their positions, and no other child list (nor the root
\* list) changes.  Stated of the add every rendered node issues at its own
\* address; Resume.addSection does the same to the root list.
C10_AddAppendsLastChild ==
    /\ \A r \in idTable, v \in DataValues :
          \A p \in {resolve(nodes, roots, r.id)},
             after \in {addChild(St, r, v, TRUE)} :
          LET old == nodes[r.obj].children
              new == Len(nodes) + 1
          IN  /\ p = r.obj
              /\ Len(after.nodes) = new
              /\ Len(after.nodes[p].children) = Len(old) + 1
              /\ \A i \in 1..Len(old) : after.nodes[p].children[i] = old[i]
              /\ after.nodes[p].children[Len(old) + 1] = new
              /\ after.nodes[new].children = <<>>
              /\ after.nodes[new].value = v
              /\ \A j \in 1..Len(nodes) :
                    j # p => after.nodes[j].children = nodes[j].children
              /\ after.roots = roots
              /\ after.result = "ok"
    /\ \A v \in DataValues :
          \A after \in {addSection(St, v)} :
              /\ Len(after.roots) = Len(roots) + 1
              /\ \A i \in 1..Len(roots) : after.roots[i] = roots[i]
              /\ after.roots[Len(roots) + 1] = Len(nodes) + 1
              /\ \A j \in 1..Len(nodes) :
                    after.nodes[j].children = nodes[j].children

\* C10 witness: A had the child B and an add made the new node its last
\* child.
C10_Witness ==
    /\ lastOp.op = "add"
    /\ result = "ok"
    /\ nodes[1].children = <<2, 3>>

----------------------------------------------------------------------------
(* Properties of identity and selection *)

\* The uuid the node o was created with.
CreatedUuid(o) == UuidPool[o]

----------------------------------------------------------------------------
(* Properties of the non-interactive modes and of the edit flag *)

\* The modes in which the nodes take no pointer events.
NonInteractiveModes == {"printing", "changingTemplate"}

\* C13: in a non-interactive mode (printing, changingTemplate) a pointer
\* enter, a pointer leave and a click on any node change neither the hover
\* nor the selection, nor anything else, and report no error.
C13_NonInteractiveEventsAreNoOps ==
    mode \in NonInteractiveModes =>
        \A r \in idTable :
            /\ MouseEnter(St, r) = St
            /\ MouseLeave(St, r) = St
            /\ Click(St, r) = St

\* C13 witness: a click was handled while printing, with a hover and a
\* selection left from the interactive mode.
C13_Witness ==
    /\ mode = "printing"
    /\ lastOp.op = "click"
    /\ hoverNode # NoId
    /\ selectedNode # NoUuid

\* C14: in printing mode the hover/select state is Idle for every node: no
\* node is reported as hovering, as selected or as being in its editing
\* form, whatever hover, selection and edit flag the mode was entered with.
C14_PrintingIsIdle ==
    mode = "printing" =>
        \A r \in idTable :
            /\ ~isHovering(St, r)
            /\ ~isSelected(St, r)
            /\ ~isEditingNode(St, r)
            /\ \A type \in NodeTypes : ~RendersEditableForm(St, r, type)
            /\ className(St, r) \subseteq {"resume-hidden"}

\* C15: a node of any type renders its editable form only if it is the
\* selected node and the edit flag is set.
C15_EditableFormOnlyIfSelected ==
    \A r \in idTable, type \in NodeTypes :
        RendersEditableForm(St, r, type) =>
            isSelected(St, r) /\ PropsIsEditing(St, r)

----------------------------------------------------------------------------
(* Properties of the mutation router and of the toolbar options *)

\* C17: when a mutation (add, update, toggleHidden) has returned, the id
\* table holds the addresses derived from the tree as the mutation left it,
\* so no later lookup sees addresses of an older tree shape.
C17_IdTableDerivedFromCurrentTree ==
    idTable = Render(nodes, roots)

\* C17 witness: an add has returned and the added node has its address.
C17_Witness ==
    /\ lastOp.op = "add"
    /\ result = "ok"
    /\ Len(nodes) = 3
    /\ \E r \in idTable : r.obj = 3

\* C18: a mutation issued by a callback of a rendered node (addChild,
\* updateData, toggleHidden, toggleEdit) or by an action of toolbar options
\* resolved earlier targets the node its address denoted when the address
\* was captured, whatever mutations and invocations happened in between.
C18_CapturedAddressTargetsCapturedNode ==
    /\ \A r \in idTable :
          /\ resolve(nodes, roots, r.id) = r.obj
          /\ LET after == updateData(St, r, "value", "Y")
             IN  /\ after.result = "ok"
                 /\ after.nodes[r.obj].value = "Y"
                 /\ OnlyNodeChanged(St, after, r.obj)
          /\ LET after == toggleHidden(St, r)
             IN  /\ after.result = "ok"
                 /\ after.nodes[r.obj].isHidden # nodes[r.obj].isHidden
                 /\ OnlyNodeChanged(St, after, r.obj)
          /\ LET after == addChild(St, r, "X", TRUE)
             IN  /\ after.result = "ok"
                 /\ after.nodes[r.obj].children
                       = Append(nodes[r.obj].children, Len(nodes) + 1)
                 /\ \A j \in 1..Len(nodes) :
                       j # r.obj => after.nodes[j] = nodes[j]
          /\ SameTree(St, toggleEdit(St, r))
    /\ toolbar # NoToolbar =>
          /\ resolve(nodes, roots, toolbar.id) = toolbar.node
          /\ \A leaf \in Leaves(toolbar.options) :
                LET after == InvokeAction(St, leaf)
                IN  /\ after.result = "ok"
                    /\ ListLen(after.nodes[toolbar.node][leaf.key])
                          = ListLen(nodes[toolbar.node][leaf.key]) + 1
                    /\ OnlyNodeChanged(St, after, toolbar.node)

\* An action was invoked after the tree grew under the resolved options.
C18_Witness ==
    /\ lastOp.op = "action"
    /\ toolbar.size < Len(nodes)
    /\ toolbar.node = 2
    /\ result = "ok"
    /\ ListLen(nodes[2].title) = 1

\* C19: resolving the options with a type discriminator that has no
\* resolver gives the empty option list for every node, reports no error,
\* calls the update callback zero times and leaves the node as it was.
C19_UnknownTypeResolvesToNothing ==
    \A r \in idTable : \A type \in ToolbarTypes \ {EntryName} :
        LET after == ResolveToolbar(St, r, type)
        IN  /\ ToolbarOptions(type) = <<>>
            /\ after.toolbar.options = <<>>
            /\ Leaves(after.toolbar.options) = {}
            /\ after.cbCalls = 0
            /\ after.result = result
            /\ SameTree(St, after)

C19_Witness ==
    /\ lastOp.op = "resolveToolbar"
    /\ toolbar.type = "unknown-type"
    /\ toolbar.options = <<>>
    /\ Len(nodes) = 3

\* C20: resolving the options of a node calls the update callback zero
\* times, and each invocation of a leaf action of the resolved option tree
\* calls it exactly once.
C20_ResolveCallsNothingActionCallsOnce ==
    /\ \A r \in idTable : \A type \in ToolbarTypes :
          ResolveToolbar(St, r, type).cbCalls = 0
    /\ \A leaf \in Leaves(toolbar.options) :
          InvokeAction(St, leaf).cbCalls = 1
    /\ lastOp.op = "resolveToolbar" => cbCalls = 0
    /\ lastOp.op = "action" => cbCalls = 1

C20_Witness ==
    /\ lastOp.op = "action"
    /\ cbCalls = 1
    /\ toolbar.type = EntryName
    /\ ListLen(nodes[toolbar.node].subtitle) = 2

\* C21: the tree is written only through the router: resolving the toolbar
\* options changes no node, and when the update call of an invoked action
\* is dropped or fails, the title and subtitle lists of the node are what
\* they were before the invocation.
C21_TreeWrittenOnlyThroughRouter ==
    /\ \A r \in idTable : \A type \in ToolbarTypes :
          SameTree(St, ResolveToolbar(St, r, type))
    /\ toolbar # NoToolbar =>
          \A leaf \in Leaves(toolbar.options) :
              LET after == InvokeActionDropped(St, leaf)
              IN  /\ after.nodes[toolbar.node].title
                        = nodes[toolbar.node].title
                  /\ after.nodes[toolbar.node].subtitle
                        = nodes[toolbar.node].subtitle

\* C22: the action 'Add another title field' of an Entry node updates key
\* 'title' to the previous title list with one empty string appended at
\* the end (a one-element list when there was none), the previous entries
\* unchanged and in order, and leaves 'subtitle' alone; 'Add another
\* subtitle field' does the same for 'subtitle'.  After n invocations the
\* list is n entries longer.
C22_ActionAppendsOneEmptyField ==
    toolbar.type = EntryName =>
        \A leaf \in Leaves(toolbar.options) :
            LET o     == toolbar.node
                other == IF leaf.key = "title" THEN "subtitle" ELSE "title"
                old   == nodes[o][leaf.key]
                after == InvokeAction(St, leaf)
                new   == after.nodes[o][leaf.key]
            IN  /\ leaf.key = IF leaf.text = "Add another title field"
                              THEN "title" ELSE "subtitle"
                /\ new # NoList
                /\ Len(new) = ListLen(old) + 1
                /\ new[Len(new)] = ""
                /\ \A i \in 1..ListLen(old) : new[i] = old[i]
                /\ after.nodes[o][other] = nodes[o][other]
                /\ OnlyNodeChanged(St, after, o)
                /\ ListLen(InvokeAction(after, leaf).nodes[o][leaf.key])
                      = ListLen(old) + 2

\* A field was added to a title list that held an entry.
C22_Witness ==
    /\ lastOp.op = "action"
    /\ toolbar.type = EntryName
    /\ nodes[toolbar.node].title = <<"T", "">>

----------------------------------------------------------------------------
(* Further properties of the hover and selection tracker *)

\* The four states of the tracker.
TrackerState(st) ==
    IF st.hoverNode = NoId
    THEN IF st.selectedNode = NoUuid THEN "Idle" ELSE "Selected"
    ELSE IF st.selectedNode = NoUuid THEN "Hovering"
         ELSE "SelectedAndHovering"

\* C23: hover and selection are independent: hoverOver and hoverOut never
\* change the selection or the edit flag, click and updateSelected never
\* change the hover or the edit flag, none of the four changes the tree,
\* and every reachable state is Idle, Hovering(id), Selected(uuid) or
\* SelectedAndHovering(uuid, id) with id the address of a node and uuid the
\* uuid of a node.
C23_HoverAndSelectionIndependent ==
    /\ \A r \in idTable :
          /\ \A after \in {MouseEnter(St, r), MouseLeave(St, r),
                            props_hoverOver(St, r.id),
                            props_hoverOut(St, r.id)} :
                /\ after.selectedNode = selectedNode
                /\ after.isEditing = isEditing
                /\ after.mode = mode
                /\ SameTree(St, after)
          /\ \A after \in {Click(St, r), setSelected(St, r),
                            props_updateSelected(St, r.id), CanvasClick(St)} :
                /\ after.hoverNode = hoverNode
                /\ after.isEditing = isEditing
                /\ after.mode = mode
                /\ SameTree(St, after)
    /\ hoverNode # NoId => Rendered(hoverNode)
    /\ selectedNode # NoUuid
          => \E o \in 1..Len(nodes) : nodes[o].uuid = selectedNode
    /\ TrackerState(St)
          \in {"Idle", "Hovering", "Selected", "SelectedAndHovering"}

\* A click selected a node while another node was hovered and the edit
\* flag was set: SelectedAndHovering.
C23_Witness ==
    /\ lastOp.op = "click"
    /\ mode = "normal"
    /\ TrackerState(St) = "SelectedAndHovering"
    /\ isEditing
    /\ hoverNode # lastOp.id

\* c is a child of p.
IsChildOf(c, p) == Len(c.id) = Len(p.id) + 1 /\ IsStrictPrefix(p.id, c.id)

\* C24: for a node p and its child c in interactive mode, after
\* hoverOver(p), hoverOver(c), hoverOut(c) the hover is empty, p is not
\* select-blocked and click(p) selects p unless p is selected already;
\* before the hoverOut(c) the same click(p) leaves the selection unchanged.
C24_LeavingChildUnblocksParent ==
    isEditable(St) =>
        \A p \in idTable : \A c \in {x \in idTable : IsChildOf(x, p)} :
            LET overP  == MouseEnter(St, p)
                overC  == MouseEnter(overP, c)
                outC   == MouseLeave(overC, c)
            IN  /\ overC.hoverNode = c.id
                /\ isSelectBlocked(overC, p)
                /\ Click(overC, p).selectedNode = selectedNode
                /\ outC.hoverNode = NoId
                /\ ~isSelectBlocked(outC, p)
                /\ Click(outC, p).selectedNode = PropsUuid(St, p)
                /\ ~isSelected(St, p) => Click(outC, p) # outC

\* The pointer left the child B over which it was, nothing is selected.
C24_Witness ==
    /\ lastOp = [op |-> "hoverOut", id |-> <<0, 0>>]
    /\ hoverNode = NoId
    /\ selectedNode = NoUuid
    /\ mode = "normal"
    /\ Len(nodes) = 3

\* What a click on a text field of r does to the edit flag and the
\* selection: on a node that is not selected it leaves the flag and can
\* only select the node; on the selected node it toggles the flag and
\* leaves the selection.
TextFieldClickEffect(r) ==
    LET after == TextFieldClick(St, r)
    IN  IF isSelected(St, r)
        THEN /\ after.isEditing = ~isEditing
             /\ after.selectedNode = selectedNode
        ELSE /\ after.isEditing = isEditing
             /\ after.selectedNode \in {selectedNode, PropsUuid(St, r)}
             /\ (isEditable(St) /\ ~isSelectBlocked(St, r))
                     => after.selectedNode = PropsUuid(St, r)

----------------------------------------------------------------------------
(* Further properties of the addresses *)

\* From s to t every node kept its address and still resolves from it, and
\* the one node that was added received the address id.
KeptAddresses(s, t, id) ==
    /\ s.idTable \subseteq t.idTable
    /\ t.idTable \ s.idTable = {[obj |-> Len(s.nodes) + 1, id |-> id]}
    /\ \A r \in s.idTable : resolve(t.nodes, t.roots, r.id) = r.obj

\* C26: add never changes the address of a node that exists: after an add,
\* and after a second one, every node that existed has the address it had
\* and only the added node has a new one; the two nodes the document began
\* with keep their addresses for ever, and the address the toolbar actions
\* captured before the adds still resolves to the node it was captured for.
C26_AddKeepsExistingAddresses ==
    /\ \A p \in idTable :
          LET after == props_addChild(St, p.id, "X")
              again == props_addChild(after, p.id, "X")
              n     == Len(nodes[p.obj].children)
          IN  /\ KeptAddresses(St, after, p.id \o <<n>>)
              /\ KeptAddresses(after, again, p.id \o <<n + 1>>)
    /\ KeptAddresses(St, addSection(St, "X"), <<Len(roots)>>)
    /\ {[obj |-> 1, id |-> <<0>>], [obj |-> 2, id |-> <<0, 0>>]}
          \subseteq idTable
    /\ toolbar # NoToolbar =>
          /\ [obj |-> toolbar.node, id |-> toolbar.id] \in idTable
          /\ resolve(nodes, roots, toolbar.id) = toolbar.node

\* A node was added below A after the options of B were resolved.
C26_Witness ==
    /\ lastOp.op = "add"
    /\ toolbar.node = 2
    /\ toolbar.size = 2
    /\ nodes[1].children = <<2, 3>>
    /\ Len(nodes) = 3

----------------------------------------------------------------------------
(* Further properties of the getters of a node *)

\* The display state of a node, from its getters.
DisplayState(st, r) ==
    IF ~isHovering(st, r) THEN "not-hovering"
    ELSE IF isSelectBlocked(st, r) THEN "hovering-over-children"
    ELSE "hovering-over-self"

\* C27: in every reachable state and for every node, isSelectBlocked
\* implies isHovering: a node whose descendant is hovered is itself
\* reported as hovering, so a select-blocked node is displayed as
\* hovering-over-children and a hovering node that is not select-blocked
\* has the hover at its own address.
C27_SelectBlockedImpliesHovering ==
    \A r \in idTable :
        /\ isSelectBlocked(St, r) => isHovering(St, r)
        /\ isSelectBlocked(St, r)
              <=> DisplayState(St, r) = "hovering-over-children"
        /\ DisplayState(St, r) = "hovering-over-self" => hoverNode = r.id

----------------------------------------------------------------------------
(* Properties of the child holder *)

\* C28: a ChildHolder holds the children it was given: built from an array
\* it holds the elements of the array in order, built from a single child
\* it holds that child, built without children it holds none, so that the
\* first addChild on a holder built without children makes the added child
\* the child at index 0.
C28_ChildHolderHoldsWhatItWasGiven ==
    \A o \in 1..Len(nodes) :
        /\ ChildHolder(TRUE, nodes[o].children) = nodes[o].children
        /\ ChildHolder(FALSE, o) = <<o>>
        /\ ChildHolder(FALSE, NoNode) = <<>>
        /\ resolveIndex(ChildHolderAddChild(ChildHolder(FALSE, NoNode), o), 0)
              = o

============================================================================
